---- MODULE Spec2Model ----
(***************************************************************************)
(* Cross-chain asset bridge of Assetra:                                    *)
(*   AssetBridgeDestination + WrappedAsset721 (relayer quorum and mint)    *)
(*   AssetBridgeSource + AssetNFT             (rate limit and escrow)      *)
(* A transaction is atomic (a revert restores the state at call entry),    *)
(* except that _safeMint hands control to the recipient contract, which    *)
(* may call back into the bridge before the outer call has finished.       *)
(***************************************************************************)
EXTENDS Integers, Sequences, FiniteSets, Bags, TLC

\* ---------------------------------------------------------------- bounds
MaxQuorum == 2
MaxTime == 4
MaxNonce == 4
MaxUint == 7         \* type(uint256).max, scaled to a three-bit word
MaxClock == 3
MaxCount == 3
MaxRetries == 3
MaxRequests == 1
MaxBatch == 2

\* ------------------------------------------------------------- principals
ZERO == "0x0"
Admin == "admin"
Relayers == {"r1", "r2", "rc"}
Contracts == {"rc"}
Addresses == {"admin", "r1", "r2", "rc", "user"}
Recipients == {ZERO, "user", "rc"}
Transfers == {"T1", "T2"}
TokenIds == {1, 2}
Batches == {<<>>, <<1>>, <<2>>, <<1, 2>>}

\* source chain
Bridge == "bridge"
Holders == {"alice", "bob"}
SrcCallers == {"admin", "alice", "bob"}
SrcRecipients == {ZERO, "user"}
SrcBatches == {<<>>, <<1>>, <<2>>, <<1, 2>>, <<1, 1>>}
Windows == {2}
Limits == {1, 2}

SeqToSet(s) == {s[k] : k \in 1..Len(s)}

VARIABLES
    \* AssetBridgeDestination
    requiredApprovals,  \* uint256 requiredApprovals
    paused,             \* PausableUpgradeable._paused of the destination bridge
    approvals,          \* mapping(bytes32 => ApprovalState)
    \* WrappedAsset721
    owners,             \* ERC721 _owners: token id -> owner, ZERO when not minted
    existsMap,          \* mapping(uint256 => bool) _existsMap
    wrappedPaused,      \* PausableUpgradeable._paused of WrappedAsset721
    \* execution
    stack,              \* approveAndMint calls inside their minting loop, innermost last
    result,             \* outcome of the call that returned last
    \* history
    minted,             \* number of WrappedMinted events per transferId
    loopRuns,           \* how many times the minting loop was entered per transferId
    mintCount,          \* successful _mint per token id
    firstArgs,          \* per transferId: <<to, tokenIds>> of its first counted attestation
    unanimous,          \* per transferId: every counted attestation passed firstArgs
    \* AssetBridgeSource
    windowSeconds,      \* uint256 windowSeconds
    maxPerWindow,       \* uint256 maxPerWindow
    windowStart,        \* mapping(address => uint256) windowStart
    windowCount,        \* mapping(address => uint256) windowCount
    nonce,              \* uint256 nonce
    srcPaused,          \* PausableUpgradeable._paused of the source bridge
    now,                \* block.timestamp
    \* AssetNFT
    nftOwner,           \* ERC721 _owners of the locked collection
    nftApproved,        \* holders that called setApprovalForAll(bridge, true)
    nftPaused,          \* PausableUpgradeable._paused of AssetNFT
    \* history
    initiated,          \* the nonces of the BridgeInitiated events, oldest first
    srcResult,          \* outcome of the lock or release call that returned last
    \* observers, recorded only by the specifications that compose them in
    lockedAt,           \* per sender and time: tokens locked by successful locks
    locker,             \* per token id in escrow: the sender whose lock put it there
    \* lib/middleware/rateLimit.ts
    store,              \* const store: per client key its {count, resetTime}, or NoEntry
    clock,              \* Date.now()
    apiResult,          \* what the limiter returned last: 429 or "null"
    passed,             \* history: the bag of <<endpoint, client, time>> of the requests let through
    opened,             \* history: per client, the times at which a store entry was created
    \* lib/services/ipfs/pinata.ts, one run of uploadWithRetry
    maxRetries,         \* parameter maxRetries
    delayMs,            \* parameter delayMs
    attempt,            \* let attempt
    lastError,          \* let lastError
    retryPc,            \* where the run stands: idle, loop, calling, waiting, returned, thrown
    timer,              \* what is left of the setTimeout the run awaits
    retryValue,         \* what the run returned or threw
    uploadCalls,        \* history: calls of uploadFn made by the run
    uploadFailures,     \* history: calls of uploadFn that rejected
    \* AssetVerificationOracle
    verificationRequests,     \* mapping(uint256 => VerificationRequest) _verificationRequests
    requestIdCounter,         \* Counters.Counter _requestIdCounter
    verifierActive,           \* verifiers[a].isActive
    verifierRole,             \* holders of VERIFIER_ROLE
    oracleRequiredApprovals,  \* uint256 requiredApprovals of the oracle
    disputePeriod,            \* uint256 disputePeriod
    oraclePaused,             \* Pausable._paused of the oracle
    \* KYCRegistry
    kycData,            \* mapping(address => KYCData) kycData
    isSanctioned,       \* mapping(address => bool) isSanctioned
    usedDocumentHashes, \* mapping(string => bool) usedDocumentHashes, as a set
    kycPaused           \* PausableUpgradeable._paused of the registry

dstState == <<approvals, owners, existsMap, minted, loopRuns, mintCount, firstArgs, unanimous>>
dstVars == <<requiredApprovals, paused, wrappedPaused, stack, result, dstState>>
rateVars == <<windowSeconds, maxPerWindow, windowStart, windowCount>>
nftVars == <<nftOwner, nftApproved, nftPaused>>
apiVars == <<store, clock, apiResult, passed, opened>>
\* what no call of the bridges writes: the off-chain services
retryVars == <<maxRetries, delayMs, attempt, lastError, retryPc, timer, retryValue,
               uploadCalls, uploadFailures>>
oracleVars == <<verificationRequests, requestIdCounter, verifierActive, verifierRole,
                oracleRequiredApprovals, disputePeriod, oraclePaused>>
kycVars == <<kycData, isSanctioned, usedDocumentHashes, kycPaused>>
offVars == <<apiVars, retryVars, oracleVars, kycVars>>
obsVars == <<lockedAt, locker, offVars>>
srcVars == <<rateVars, nonce, srcPaused, now, nftVars, initiated, srcResult, obsVars>>

\* ------------------------------------------------ AssetBridgeDestination
ApprovalState0 == [count |-> 0, approvers |-> {}, processed |-> FALSE]

Snapshot ==
    [approvals |-> approvals, owners |-> owners, existsMap |-> existsMap,
     minted |-> minted, loopRuns |-> loopRuns, mintCount |-> mintCount,
     firstArgs |-> firstArgs, unanimous |-> unanimous]

\* a failure that leaves the writes made so far in place
RestoreNothing(s) == UNCHANGED <<approvals, owners, existsMap, minted, loopRuns, mintCount, firstArgs, unanimous>>

\* a revert: every write since the call's entry is undone
Restore(s) ==
    /\ approvals' = s.approvals
    /\ owners' = s.owners
    /\ existsMap' = s.existsMap
    /\ minted' = s.minted
    /\ loopRuns' = s.loopRuns
    /\ mintCount' = s.mintCount
    /\ firstArgs' = s.firstArgs
    /\ unanimous' = s.unanimous

Top == stack[Len(stack)]
Pop == SubSeq(stack, 1, Len(stack) - 1)
SetTop(f) == [stack EXCEPT ![Len(stack)] = f]

\* who may start a call now: anybody between transactions, the recipient
\* whose onERC721Received is running otherwise
CanCall(caller) ==
    \/ stack = <<>>
    \/ /\ stack # <<>>
       /\ Top.phase = "callback"
       /\ caller = Top.to

\* approveAndMint without require(!st.processed)
RejectReasonNoProcessed(caller, t, to, ids) ==
    IF paused THEN "paused"
    ELSE IF caller \notin Relayers THEN "unauthorized"
    ELSE IF to = ZERO THEN "bad recipient"
    ELSE IF Len(ids) = 0 THEN "empty batch"
    ELSE IF caller \in approvals[t].approvers THEN "already approved"
    ELSE "ok"

\* approveAndMint without require(!st.approvers[msg.sender])
RejectReasonNoApprover(caller, t, to, ids) ==
    IF paused THEN "paused"
    ELSE IF caller \notin Relayers THEN "unauthorized"
    ELSE IF to = ZERO THEN "bad recipient"
    ELSE IF Len(ids) = 0 THEN "empty batch"
    ELSE IF approvals[t].processed THEN "already processed"
    ELSE "ok"

\* approveAndMint without onlyRole(RELAYER_ROLE)
RejectReasonNoRole(caller, t, to, ids) ==
    IF paused THEN "paused"
    ELSE IF to = ZERO THEN "bad recipient"
    ELSE IF Len(ids) = 0 THEN "empty batch"
    ELSE IF approvals[t].processed THEN "already processed"
    ELSE IF caller \in approvals[t].approvers THEN "already approved"
    ELSE "ok"

\* approveAndMint without the requires on `to` and on the batch length
RejectReasonNoArgs(caller, t, to, ids) ==
    IF paused THEN "paused"
    ELSE IF caller \notin Relayers THEN "unauthorized"
    ELSE IF approvals[t].processed THEN "already processed"
    ELSE IF caller \in approvals[t].approvers THEN "already approved"
    ELSE "ok"

\* modifiers and requires of approveAndMint, in the order the code runs them
RejectReason(caller, t, to, ids) ==
    IF paused THEN "paused"
    ELSE IF caller \notin Relayers THEN "unauthorized"
    ELSE IF to = ZERO THEN "bad recipient"
    ELSE IF Len(ids) = 0 THEN "empty batch"
    ELSE IF approvals[t].processed THEN "already processed"
    ELSE IF caller \in approvals[t].approvers THEN "already approved"
    ELSE "ok"

\* a quorum test that asks for two attestations more
QuorumMetTwoLate(n) == n > requiredApprovals + 1

\* if (st.count >= requiredApprovals)
QuorumMet(n) == n >= requiredApprovals

\* approveAndMint up to the start of the minting loop
ApproveAndMint(caller, t, to, ids) ==
    /\ CanCall(caller)
    /\ LET why == RejectReason(caller, t, to, ids)
           n == approvals[t].count + 1
       IN IF why # "ok"
          THEN /\ result' = why
               /\ UNCHANGED <<requiredApprovals, paused, wrappedPaused, stack, dstState>>
          ELSE /\ approvals' = [approvals EXCEPT
                                  ![t].approvers = @ \cup {caller},
                                  ![t].count = n]
               /\ firstArgs' = [firstArgs EXCEPT ![t] =
                                  IF approvals[t].count = 0 THEN <<to, ids>> ELSE @]
               /\ unanimous' = [unanimous EXCEPT ![t] =
                                  @ /\ firstArgs'[t] = <<to, ids>>]
               /\ IF QuorumMet(n)
                  THEN /\ stack' = Append(stack,
                              [caller |-> caller, t |-> t, to |-> to, ids |-> ids,
                               i |-> 1, phase |-> "loop", snap |-> Snapshot])
                       /\ loopRuns' = [loopRuns EXCEPT ![t] = @ + 1]
                       /\ result' = "running"
                  ELSE /\ result' = "approved"
                       /\ UNCHANGED <<stack, loopRuns>>
               /\ UNCHANGED <<requiredApprovals, paused, wrappedPaused,
                              owners, existsMap, minted, mintCount>>
    /\ UNCHANGED srcVars

InLoop == stack # <<>> /\ Top.phase = "loop" /\ Top.i <= Len(Top.ids)

\* the loop without its exists() test
ShouldMintAlways(id) == TRUE

\* if (!wrapped.exists(tokenIds[i]))
ShouldMint(id) == ~existsMap[id]

\* mintTo without require(!_existsMap[tokenId]) over a _mint that overwrites the owner
CanMintUnguarded(id) == ~wrappedPaused


\* WrappedAsset721.mintTo guards: whenNotPaused, require(!_existsMap[tokenId]),
\* and ERC721._mint refusing a token that already has an owner
CanMint(id) == ~wrappedPaused /\ ~existsMap[id] /\ owners[id] = ZERO

\* a loop iteration over an id that exists already
MintSkip ==
    /\ InLoop
    /\ ~ShouldMint(Top.ids[Top.i])
    /\ stack' = SetTop([Top EXCEPT !.i = @ + 1])
    /\ UNCHANGED <<requiredApprovals, paused, wrappedPaused, result, dstState>>

\* a loop iteration whose mintTo goes through; a contract recipient then
\* gets control in onERC721Received before _existsMap is written
MintTo ==
    /\ InLoop
    /\ LET id == Top.ids[Top.i] IN
       /\ ShouldMint(id)
       /\ CanMint(id)
       /\ owners' = [owners EXCEPT ![id] = Top.to]
       /\ mintCount' = [mintCount EXCEPT ![id] = @ + 1]
       /\ IF Top.to \in Contracts
          THEN /\ stack' = SetTop([Top EXCEPT !.phase = "callback"])
               /\ UNCHANGED existsMap
          ELSE /\ stack' = SetTop([Top EXCEPT !.i = @ + 1])
               /\ existsMap' = [existsMap EXCEPT ![id] = TRUE]
    /\ UNCHANGED <<requiredApprovals, paused, wrappedPaused, result,
                   approvals, minted, loopRuns, firstArgs, unanimous>>

\* the whole approveAndMint call reverts: state as at its entry
RevertCall ==
    /\ Restore(Top.snap)
    /\ stack' = Pop
    /\ result' = "mint failed"
    /\ UNCHANGED <<requiredApprovals, paused, wrappedPaused>>

\* a loop iteration whose mintTo reverts
MintFail ==
    /\ InLoop
    /\ ShouldMint(Top.ids[Top.i])
    /\ ~CanMint(Top.ids[Top.i])
    /\ RevertCall

\* onERC721Received returns its selector
CallbackAccept ==
    /\ stack # <<>>
    /\ Top.phase = "callback"
    /\ existsMap' = [existsMap EXCEPT ![Top.ids[Top.i]] = TRUE]
    /\ stack' = SetTop([Top EXCEPT !.i = @ + 1, !.phase = "loop"])
    /\ UNCHANGED <<requiredApprovals, paused, wrappedPaused, result,
                   approvals, owners, minted, loopRuns, mintCount, firstArgs, unanimous>>

\* onERC721Received reverts or returns something else
CallbackReject ==
    /\ stack # <<>>
    /\ Top.phase = "callback"
    /\ RevertCall

\* st.processed = true; emit WrappedMinted
Finish ==
    /\ stack # <<>>
    /\ Top.phase = "loop"
    /\ Top.i > Len(Top.ids)
    /\ approvals' = [approvals EXCEPT ![Top.t].processed = TRUE]
    /\ minted' = [minted EXCEPT ![Top.t] = @ + 1]
    /\ stack' = Pop
    /\ result' = "minted"
    /\ UNCHANGED <<requiredApprovals, paused, wrappedPaused,
                   owners, existsMap, loopRuns, mintCount, firstArgs, unanimous>>

SetRequiredApprovals(caller, n) ==
    /\ stack = <<>>
    /\ IF caller # Admin THEN result' = "unauthorized" /\ UNCHANGED requiredApprovals
       ELSE IF ~(n > 0) THEN result' = "zero quorum" /\ UNCHANGED requiredApprovals
       ELSE result' = "quorum set" /\ requiredApprovals' = n
    /\ UNCHANGED <<paused, wrappedPaused, stack, dstState>>

Pause(caller) ==
    /\ stack = <<>>
    /\ IF caller # Admin THEN result' = "unauthorized" /\ UNCHANGED paused
       ELSE IF paused THEN result' = "paused" /\ UNCHANGED paused
       ELSE result' = "pause" /\ paused' = TRUE
    /\ UNCHANGED <<requiredApprovals, wrappedPaused, stack, dstState>>

Unpause(caller) ==
    /\ stack = <<>>
    /\ IF caller # Admin THEN result' = "unauthorized" /\ UNCHANGED paused
       ELSE IF ~paused THEN result' = "not paused" /\ UNCHANGED paused
       ELSE result' = "unpause" /\ paused' = FALSE
    /\ UNCHANGED <<requiredApprovals, wrappedPaused, stack, dstState>>

WrappedPause(caller) ==
    /\ stack = <<>>
    /\ IF caller # Admin THEN result' = "unauthorized" /\ UNCHANGED wrappedPaused
       ELSE IF wrappedPaused THEN result' = "paused" /\ UNCHANGED wrappedPaused
       ELSE result' = "pause" /\ wrappedPaused' = TRUE
    /\ UNCHANGED <<requiredApprovals, paused, stack, dstState>>

WrappedUnpause(caller) ==
    /\ stack = <<>>
    /\ IF caller # Admin THEN result' = "unauthorized" /\ UNCHANGED wrappedPaused
       ELSE IF ~wrappedPaused THEN result' = "not paused" /\ UNCHANGED wrappedPaused
       ELSE result' = "unpause" /\ wrappedPaused' = FALSE
    /\ UNCHANGED <<requiredApprovals, paused, stack, dstState>>

\* initialize(_destinationChainId, _wrapped, _requiredApprovals) with the quorum
\* taken from quorums (initialize itself accepts any value)
InitDst(quorums) ==
    /\ requiredApprovals \in quorums
    /\ paused = FALSE
    /\ approvals = [t \in Transfers |-> ApprovalState0]
    /\ owners = [id \in TokenIds |-> ZERO]
    /\ existsMap = [id \in TokenIds |-> FALSE]
    /\ wrappedPaused = FALSE
    /\ stack = <<>>
    /\ result = "init"
    /\ minted = [t \in Transfers |-> 0]
    /\ loopRuns = [t \in Transfers |-> 0]
    /\ mintCount = [id \in TokenIds |-> 0]
    /\ firstArgs = [t \in Transfers |-> <<>>]
    /\ unanimous = [t \in Transfers |-> TRUE]

\* the minting loop of the innermost running call, one iteration at a time
MintLoop ==
    \/ MintSkip
    \/ MintTo
    \/ MintFail
    \/ CallbackAccept
    \/ CallbackReject
    \/ Finish

AdminDst ==
    \/ \E caller \in Addresses, n \in 0..MaxQuorum : SetRequiredApprovals(caller, n)
    \/ \E caller \in Addresses : Pause(caller)
    \/ \E caller \in Addresses : Unpause(caller)
    \/ \E caller \in Addresses : WrappedPause(caller)
    \/ \E caller \in Addresses : WrappedUnpause(caller)

\* ----------------------------------------------------- AssetBridgeSource
Res(r, k) == [res |-> r, at |-> k]

\* transferFrom whose failure the caller does not notice
TransferFromLenient(own, spender, from, to, id) ==
    IF /\ own[id] # ZERO
       /\ (spender = own[id] \/ (spender = Bridge /\ own[id] \in nftApproved))
       /\ own[id] = from
       /\ to # ZERO
       /\ ~nftPaused
    THEN [ok |-> TRUE, own |-> [own EXCEPT ![id] = to]]
    ELSE [ok |-> TRUE, own |-> own]

\* transferFrom that does not compare from with the owner
TransferFromAnyOwner(own, spender, from, to, id) ==
    IF /\ own[id] # ZERO
       /\ (spender = own[id] \/ (spender = Bridge /\ own[id] \in nftApproved))
       /\ to # ZERO
       /\ ~nftPaused
    THEN [ok |-> TRUE, own |-> [own EXCEPT ![id] = to]]
    ELSE [ok |-> FALSE, own |-> own]

\* IERC721(token).transferFrom(from, to, id) called by spender on the AssetNFT
\* ownership map own: the token must exist, spender be its owner or an
\* operator of its owner, from be its owner, to be non-zero, and AssetNFT's
\* _beforeTokenTransfer be unpaused
TransferFrom(own, spender, from, to, id) ==
    IF /\ own[id] # ZERO
       /\ (spender = own[id] \/ (spender = Bridge /\ own[id] \in nftApproved))
       /\ own[id] = from
       /\ to # ZERO
       /\ ~nftPaused
    THEN [ok |-> TRUE, own |-> [own EXCEPT ![id] = to]]
    ELSE [ok |-> FALSE, own |-> own]

\* for (i = 0; i < tokenIds.length; i++) erc721.transferFrom(from, to, tokenIds[i])
\* run from index i on: the ownership map reached, and the index that failed (0: none)
RECURSIVE TransferLoop(_, _, _, _, _)
TransferLoop(own, from, to, ids, i) ==
    IF i > Len(ids) THEN [failed |-> 0, own |-> own]
    ELSE LET r == TransferFrom(own, Bridge, from, to, ids[i])
         IN IF r.ok THEN TransferLoop(r.own, from, to, ids, i + 1)
            ELSE [failed |-> i, own |-> r.own]

\* _checkRateLimit(user, amount): the window after the optional reset, and
\* whether the require lets the amount through
RateWindow(user) ==
    IF now >= windowStart[user] + windowSeconds
    THEN [start |-> now, count |-> 0]
    ELSE [start |-> windowStart[user], count |-> windowCount[user]]

\* a rate limit that lets every amount through
RateAdmitsAlways(user, amount) == TRUE

RateAdmits(user, amount) == RateWindow(user).count + amount <= maxPerWindow

\* the checked additions of _checkRateLimit: start + windowSeconds at line 78,
\* windowCount[user] + amount at lines 83 and 84; Solidity 0.8 reverts with
\* Panic(0x11) when a sum does not fit the word
RatePanics(user, amount) ==
    \/ windowStart[user] + windowSeconds > MaxUint
    \/ RateWindow(user).count + amount > MaxUint

\* a counter that does not advance
NextNonceStuck(n) == n

\* uint256 currentNonce = nonce++
NextNonce(n) == n + 1

\* keccak256(abi.encode(sourceChainId, destinationChainId, token, msg.sender,
\* to, tokenIds, currentNonce)): the encoding is injective and the hash is
\* taken as collision-free, so the id is the tuple of the fields that vary
TransferId(from, to, ids, n) == <<from, to, ids, n>>

LockERC721Batch(caller, ids, to) ==
    LET w == RateWindow(caller)
        moved == TransferLoop(nftOwner, caller, Bridge, ids, 1)
        why == IF srcPaused THEN Res("paused", 0)
               ELSE IF Len(ids) = 0 THEN Res("empty batch", 0)
               ELSE IF to = ZERO THEN Res("bad recipient", 0)
               ELSE IF RatePanics(caller, Len(ids)) THEN Res("panic", 0)
               ELSE IF ~RateAdmits(caller, Len(ids)) THEN Res("rate limit", 0)
               ELSE IF moved.failed # 0 THEN Res("transfer failed", moved.failed)
               ELSE Res("locked", 0)
    IN /\ why.res = "locked" => nonce < MaxNonce
       /\ srcResult' = why
       /\ IF why.res = "locked"
          THEN /\ windowStart' = [windowStart EXCEPT ![caller] = w.start]
               /\ windowCount' = [windowCount EXCEPT ![caller] = w.count + Len(ids)]
               /\ nftOwner' = moved.own
               /\ nonce' = NextNonce(nonce)
               /\ initiated' = Append(initiated, nonce)
               /\ UNCHANGED <<windowSeconds, maxPerWindow, srcPaused, now,
                              nftApproved, nftPaused>>
          ELSE UNCHANGED <<rateVars, nonce, srcPaused, now, nftVars, initiated>>
       /\ UNCHANGED dstVars

ReleaseERC721Batch(caller, to, ids) ==
    LET moved == TransferLoop(nftOwner, Bridge, to, ids, 1)
        why == IF caller # Admin THEN Res("unauthorized", 0)
               ELSE IF moved.failed # 0 THEN Res("release failed", moved.failed)
               ELSE Res("released", 0)
    IN /\ srcResult' = why
       /\ nftOwner' = IF why.res = "released" THEN moved.own ELSE nftOwner
       /\ UNCHANGED <<rateVars, nonce, srcPaused, now, nftApproved, nftPaused,
                      initiated, dstVars>>

SetRateLimit(caller, w, m) ==
    /\ IF caller # Admin
       THEN UNCHANGED <<windowSeconds, maxPerWindow>>
       ELSE /\ windowSeconds' = w
            /\ maxPerWindow' = m
    /\ UNCHANGED <<windowStart, windowCount, nonce, srcPaused, now, nftVars,
                   initiated, srcResult, dstVars>>

SrcPause(caller) ==
    /\ srcPaused' = IF caller = Admin /\ ~srcPaused THEN TRUE ELSE srcPaused
    /\ UNCHANGED <<rateVars, nonce, now, nftVars, initiated, srcResult, dstVars>>

SrcUnpause(caller) ==
    /\ srcPaused' = IF caller = Admin /\ srcPaused THEN FALSE ELSE srcPaused
    /\ UNCHANGED <<rateVars, nonce, now, nftVars, initiated, srcResult, dstVars>>

\* a holder grants or withdraws the bridge's operator approval
SetApprovalForAll(holder, approved) ==
    /\ nftApproved' = IF approved THEN nftApproved \cup {holder}
                      ELSE nftApproved \ {holder}
    /\ UNCHANGED <<rateVars, nonce, srcPaused, now, nftOwner, nftPaused,
                   initiated, srcResult, dstVars>>

\* AssetNFT.pause() / unpause() by its operator
NftSetPaused(p) ==
    /\ nftPaused # p
    /\ nftPaused' = p
    /\ UNCHANGED <<rateVars, nonce, srcPaused, now, nftOwner, nftApproved,
                   initiated, srcResult, dstVars>>

\* AssetNFT.burnAsset(tokenId) by the token's owner or by AssetNFT's operator
BurnAsset(caller, id) ==
    /\ nftOwner[id] # ZERO
    /\ caller = nftOwner[id] \/ caller = Admin
    /\ ~nftPaused
    /\ nftOwner' = [nftOwner EXCEPT ![id] = ZERO]
    /\ UNCHANGED <<rateVars, nonce, srcPaused, now, nftApproved, nftPaused,
                   initiated, srcResult, dstVars>>

\* a later block
Tick ==
    /\ now < MaxTime
    /\ now' = now + 1
    /\ UNCHANGED <<rateVars, nonce, srcPaused, nftVars, initiated, srcResult, dstVars>>

\* initialize(_sourceChainId, _windowSeconds, _maxPerWindow); block.timestamp is
\* past the first window, as on any live chain
InitSrcAt(own, t0) ==
    /\ windowSeconds = 2
    /\ maxPerWindow = 2
    /\ windowStart = [u \in SrcCallers |-> 0]
    /\ windowCount = [u \in SrcCallers |-> 0]
    /\ nonce = 1
    /\ srcPaused = FALSE
    /\ now = t0
    /\ nftOwner = own
    /\ nftApproved = {}
    /\ nftPaused = FALSE
    /\ initiated = <<>>
    /\ srcResult = Res("init", 0)

\* nothing observed yet
InitObs ==
    /\ lockedAt = [u \in SrcCallers |-> [t \in 0..MaxTime |-> 0]]
    /\ locker = [id \in TokenIds |-> ZERO]

\* the observers of a lockERC721Batch(caller, ids, to) step
RecordLockedAt(caller, ids) ==
    lockedAt' = IF srcResult'.res = "locked"
                THEN [lockedAt EXCEPT ![caller][now] = @ + Len(ids)]
                ELSE lockedAt
RecordLocker(caller, ids) ==
    locker' = IF srcResult'.res = "locked"
              THEN [id \in TokenIds |-> IF id \in SeqToSet(ids) THEN caller ELSE locker[id]]
              ELSE locker
\* the observer of a step that takes tokens out of escrow
ForgetLocker ==
    locker' = [id \in TokenIds |-> IF nftOwner'[id] = Bridge THEN locker[id] ELSE ZERO]

\* ------------------------------------------- lib/middleware/rateLimit.ts
\* the configurations the routes pass: the upload route's { windowMs: 60000,
\* maxRequests: 20 } and defaultConfig { windowMs: 15 * 60 * 1000,
\* maxRequests: 100 }, scaled to a short window with a small quota and a
\* window three times as long with twice the quota
UploadConfig == [windowMs |-> 1, maxRequests |-> 1]
DefaultConfig == [windowMs |-> 3, maxRequests |-> 2]
Configs == {UploadConfig, DefaultConfig}
\* x-forwarded-for || x-real-ip || 'unknown'
Ips == {"10.0.0.1", "unknown"}
NoEntry == [count |-> 0, resetTime |-> 0]

\* the handler rateLimit(config) returns, run for a request of client ip
RateLimit(config, ip) ==
    LET kept == IF store[ip] # NoEntry /\ clock > store[ip].resetTime
                THEN NoEntry ELSE store[ip]
        entry == IF kept = NoEntry
                 THEN [count |-> 1, resetTime |-> clock + config.windowMs]
                 ELSE [kept EXCEPT !.count = @ + 1]
        limited == entry.count > config.maxRequests
    IN /\ entry.count <= MaxCount
       /\ store' = [store EXCEPT ![ip] = entry]
       /\ apiResult' = IF limited THEN 429 ELSE "null"
       /\ passed' = IF limited THEN passed
                    ELSE passed (+) SetToBag({<<config, ip, clock>>})
       /\ opened' = IF kept = NoEntry
                    THEN [opened EXCEPT ![ip] = @ \cup {clock}] ELSE opened
       /\ UNCHANGED clock

\* time passes
ClockTick ==
    /\ clock < MaxClock
    /\ clock' = clock + 1
    /\ UNCHANGED <<store, apiResult, passed, opened>>

\* the module as loaded: const store = {}
InitApi ==
    /\ store = [ip \in Ips |-> NoEntry]
    /\ clock = 0
    /\ apiResult = "null"
    /\ passed = EmptyBag
    /\ opened = [ip \in Ips |-> {}]

\* ------------------------------------------ lib/services/ipfs/pinata.ts
UploadResults == {"QmA", "QmB"}
\* what uploadFn rejects with: an Error, or something that is not an Error
UploadErrors == {"timeout", "not an Error"}
Delays == {0, 1, 2}
Undefined == "undefined"
\* what a run hands back: nothing yet, the value of uploadFn, or the ApiError
Outcome(k, st, m) == [kind |-> k, status |-> st, message |-> m]
NoOutcome == Outcome("none", 0, "")

\* uploadWithRetry(uploadFn, m, d) is called: let lastError; attempt = 1
Invoke(m, d) ==
    /\ retryPc \in {"idle", "returned", "thrown"}
    /\ maxRetries' = m
    /\ delayMs' = d
    /\ attempt' = 1
    /\ lastError' = Undefined
    /\ retryPc' = "loop"
    /\ timer' = 0
    /\ retryValue' = NoOutcome
    /\ uploadCalls' = 0
    /\ uploadFailures' = 0

\* the loop test attempt <= maxRetries: call uploadFn, or leave the loop and
\* throw new ApiError(500, ...)
LoopTest ==
    /\ retryPc = "loop"
    /\ IF attempt <= maxRetries
       THEN /\ retryPc' = "calling"
            /\ uploadCalls' = uploadCalls + 1
            /\ UNCHANGED retryValue
       ELSE /\ retryPc' = "thrown"
            /\ retryValue' = Outcome("ApiError", 500, lastError)
            /\ UNCHANGED uploadCalls
    /\ UNCHANGED <<maxRetries, delayMs, attempt, lastError, timer, uploadFailures>>

\* await uploadFn() resolves: return its value
UploadResolves(v) ==
    /\ retryPc = "calling"
    /\ retryPc' = "returned"
    /\ retryValue' = Outcome("value", 0, v)
    /\ UNCHANGED <<maxRetries, delayMs, attempt, lastError, timer, uploadCalls,
                   uploadFailures>>

\* await uploadFn() rejects: the catch block
UploadRejects(e) ==
    /\ retryPc = "calling"
    /\ lastError' = IF e = "not an Error" THEN "Unknown error" ELSE e
    /\ uploadFailures' = uploadFailures + 1
    /\ IF attempt < maxRetries
       THEN /\ retryPc' = "waiting"
            /\ timer' = delayMs * attempt
            /\ UNCHANGED attempt
       ELSE /\ retryPc' = "loop"
            /\ attempt' = attempt + 1
            /\ UNCHANGED timer
    /\ UNCHANGED <<maxRetries, delayMs, retryValue, uploadCalls>>

\* the setTimeout runs down and fires: attempt++
TimerRuns ==
    /\ retryPc = "waiting"
    /\ IF timer > 0
       THEN /\ timer' = timer - 1
            /\ UNCHANGED <<retryPc, attempt>>
       ELSE /\ retryPc' = "loop"
            /\ attempt' = attempt + 1
            /\ UNCHANGED timer
    /\ UNCHANGED <<maxRetries, delayMs, lastError, retryValue, uploadCalls,
                   uploadFailures>>

\* no run yet
InitRetry ==
    /\ maxRetries = 3
    /\ delayMs = 0
    /\ attempt = 1
    /\ lastError = Undefined
    /\ retryPc = "idle"
    /\ timer = 0
    /\ retryValue = NoOutcome
    /\ uploadCalls = 0
    /\ uploadFailures = 0

\* ------------------------------------------------ AssetVerificationOracle
RequestIds == 1..MaxRequests
\* the deployer (ADMIN_ROLE), two appraisers, and somebody else
OracleCallers == {Admin, "v1", "v2", "user"}
\* who tries the administrative functions
OracleManagers == {Admin, "user"}
Appraisers == {"v1", "v2"}
DisputePeriods == {0, 2}
NoRequest ==
    [exists |-> FALSE, status |-> "Pending", timestamp |-> 0,
     verifierApprovals |-> {}, approvalCount |-> 0]

\* modifier onlyVerifier
IsVerifier(caller) == caller \in verifierRole \/ caller = Admin

\* a status test that lets every request through
IsPendingAlways(request) == TRUE

\* require(request.status == VerificationStatus.Pending)
IsPending(request) == request.status = "Pending"

\* requestVerification, paid telling whether msg.value >= verificationFee and
\* valid whether assetId and documentHash are non-empty
RequestVerification(paid, valid) ==
    /\ requestIdCounter < MaxRequests
    /\ IF ~oraclePaused /\ paid /\ valid
       THEN /\ requestIdCounter' = requestIdCounter + 1
            /\ verificationRequests' =
                  [verificationRequests EXCEPT ![requestIdCounter + 1] =
                      [exists |-> TRUE, status |-> "Pending", timestamp |-> now,
                       verifierApprovals |-> {}, approvalCount |-> 0]]
       ELSE UNCHANGED <<verificationRequests, requestIdCounter>>
    /\ UNCHANGED <<verifierActive, verifierRole, oracleRequiredApprovals,
                   disputePeriod, oraclePaused>>

ApproveVerification(caller, requestId) ==
    LET request == verificationRequests[requestId]
        count == request.approvalCount + 1
    IN /\ IF /\ IsVerifier(caller)
             /\ ~oraclePaused
             /\ request.exists
             /\ IsPending(request)
             /\ caller \notin request.verifierApprovals
          THEN verificationRequests' =
                  [verificationRequests EXCEPT ![requestId] =
                      [request EXCEPT
                          !.verifierApprovals = @ \cup {caller},
                          !.approvalCount = count,
                          !.status = IF count >= oracleRequiredApprovals
                                     THEN "Approved" ELSE @]]
          ELSE UNCHANGED verificationRequests
       /\ UNCHANGED <<requestIdCounter, verifierActive, verifierRole,
                      oracleRequiredApprovals, disputePeriod, oraclePaused>>

RejectVerification(caller, requestId) ==
    LET request == verificationRequests[requestId]
    IN /\ IF /\ IsVerifier(caller)
             /\ ~oraclePaused
             /\ request.exists
             /\ IsPending(request)
          THEN verificationRequests' =
                  [verificationRequests EXCEPT ![requestId].status = "Rejected"]
          ELSE UNCHANGED verificationRequests
       /\ UNCHANGED <<requestIdCounter, verifierActive, verifierRole,
                      oracleRequiredApprovals, disputePeriod, oraclePaused>>

DisputeVerification(caller, requestId) ==
    LET request == verificationRequests[requestId]
    IN /\ IF /\ ~oraclePaused
             /\ request.exists
             /\ request.status = "Approved"
             /\ now <= request.timestamp + disputePeriod
          THEN verificationRequests' =
                  [verificationRequests EXCEPT ![requestId].status = "Disputed"]
          ELSE UNCHANGED verificationRequests
       /\ UNCHANGED <<requestIdCounter, verifierActive, verifierRole,
                      oracleRequiredApprovals, disputePeriod, oraclePaused>>

AddVerifier(caller, verifier) ==
    /\ IF caller = Admin /\ verifier # ZERO /\ verifier \notin verifierActive
       THEN /\ verifierActive' = verifierActive \cup {verifier}
            /\ verifierRole' = verifierRole \cup {verifier}
       ELSE UNCHANGED <<verifierActive, verifierRole>>
    /\ UNCHANGED <<verificationRequests, requestIdCounter, oracleRequiredApprovals,
                   disputePeriod, oraclePaused>>

RemoveVerifier(caller, verifier) ==
    /\ IF caller = Admin /\ verifier \in verifierActive
       THEN /\ verifierActive' = verifierActive \ {verifier}
            /\ verifierRole' = verifierRole \ {verifier}
       ELSE UNCHANGED <<verifierActive, verifierRole>>
    /\ UNCHANGED <<verificationRequests, requestIdCounter, oracleRequiredApprovals,
                   disputePeriod, oraclePaused>>

OracleSetRequiredApprovals(caller, count) ==
    /\ oracleRequiredApprovals' =
          IF caller = Admin /\ count > 0 THEN count ELSE oracleRequiredApprovals
    /\ UNCHANGED <<verificationRequests, requestIdCounter, verifierActive,
                   verifierRole, disputePeriod, oraclePaused>>

SetDisputePeriod(caller, period) ==
    /\ disputePeriod' = IF caller = Admin THEN period ELSE disputePeriod
    /\ UNCHANGED <<verificationRequests, requestIdCounter, verifierActive,
                   verifierRole, oracleRequiredApprovals, oraclePaused>>

\* pause() and unpause()
OracleSetPaused(caller, p) ==
    /\ oraclePaused' = IF caller = Admin /\ oraclePaused # p THEN p ELSE oraclePaused
    /\ UNCHANGED <<verificationRequests, requestIdCounter, verifierActive,
                   verifierRole, oracleRequiredApprovals, disputePeriod>>

\* the contract as deployed: requiredApprovals = 3, disputePeriod = 7 days
\* (here two ticks), no verifier yet
InitOracle ==
    /\ verificationRequests = [id \in RequestIds |-> NoRequest]
    /\ requestIdCounter = 0
    /\ verifierActive = {}
    /\ verifierRole = {}
    /\ oracleRequiredApprovals = 3
    /\ disputePeriod = 2
    /\ oraclePaused = FALSE

\* ------------------------------------------------------------ KYCRegistry
KycUsers == {"alice", "bob"}
\* the deployer and a stranger
KycCallers == {Admin, "user"}
\* the roles as initialize() grants them: all to the deployer
kycVerifierRole == {Admin}
DocumentHashes == {"", "QmA", "QmB"}
RiskLevels == {"LOW", "BLOCKED"}
\* expiry dates: one that passes while the clock runs, one that does not
ExpiryTimes == {MaxTime, MaxTime + 1}
\* KYCData, without the fields no function reads back (verifiedAt, verifier,
\* documentHash, transactionLimit)
NoKyc == [isVerified |-> FALSE, riskLevel |-> "NONE", expiresAt |-> 0]

\* a sanction test that lets every user through
NotSanctionedAnyone(user) == TRUE

\* require(!isSanctioned[user])
NotSanctioned(user) == ~isSanctioned[user]

\* verifyUser on the registry state reg = [kycData, usedDocumentHashes]:
\* the state it leaves, with ok telling whether it returned or reverted
VerifyUserOn(reg, caller, user, documentHash, riskLevel, expiresAt) ==
    IF /\ caller \in kycVerifierRole
       /\ ~kycPaused
       /\ user # ZERO
       /\ documentHash # ""
       /\ documentHash \notin reg.usedDocumentHashes
       /\ expiresAt > now
       /\ NotSanctioned(user)
    THEN [ok |-> TRUE,
          kycData |-> [reg.kycData EXCEPT ![user] =
                          [isVerified |-> TRUE, riskLevel |-> riskLevel,
                           expiresAt |-> expiresAt]],
          usedDocumentHashes |-> reg.usedDocumentHashes \cup {documentHash}]
    ELSE [ok |-> FALSE, kycData |-> reg.kycData,
          usedDocumentHashes |-> reg.usedDocumentHashes]

Registry == [ok |-> TRUE, kycData |-> kycData, usedDocumentHashes |-> usedDocumentHashes]

VerifyUser(caller, user, documentHash, riskLevel, expiresAt) ==
    LET after == VerifyUserOn(Registry, caller, user, documentHash, riskLevel, expiresAt)
    IN /\ kycData' = after.kycData
       /\ usedDocumentHashes' = after.usedDocumentHashes
       /\ UNCHANGED <<isSanctioned, kycPaused>>

\* the loop of batchVerifyUsers from entry i on
RECURSIVE BatchLoop(_, _, _, _)
BatchLoop(reg, caller, entries, i) ==
    IF ~reg.ok \/ i > Len(entries) THEN reg
    ELSE BatchLoop(VerifyUserOn(reg, caller, entries[i].user, entries[i].documentHash,
                                entries[i].riskLevel, entries[i].expiresAt),
                   caller, entries, i + 1)

\* batchVerifyUsers, the five arrays given as one sequence of entries and
\* sameLength telling whether the arrays had one length; a revert of any
\* verifyUser reverts the batch
BatchVerifyUsers(caller, entries, sameLength) ==
    LET after == IF caller \in kycVerifierRole /\ ~kycPaused /\ sameLength
                 THEN BatchLoop(Registry, caller, entries, 1)
                 ELSE [Registry EXCEPT !.ok = FALSE]
    IN /\ kycData' = IF after.ok THEN after.kycData ELSE kycData
       /\ usedDocumentHashes' =
             IF after.ok THEN after.usedDocumentHashes ELSE usedDocumentHashes
       /\ UNCHANGED <<isSanctioned, kycPaused>>

RevokeVerification(caller, user) ==
    /\ kycData' = IF caller \in kycVerifierRole /\ kycData[user].isVerified
                  THEN [kycData EXCEPT ![user].isVerified = FALSE,
                                       ![user].expiresAt = now]
                  ELSE kycData
    /\ UNCHANGED <<isSanctioned, usedDocumentHashes, kycPaused>>

UpdateRiskLevel(caller, user, newLevel) ==
    /\ kycData' = IF caller \in kycVerifierRole /\ kycData[user].isVerified
                  THEN [kycData EXCEPT ![user].riskLevel = newLevel,
                                       ![user].isVerified =
                                           IF newLevel = "BLOCKED" THEN FALSE ELSE @]
                  ELSE kycData
    /\ UNCHANGED <<isSanctioned, usedDocumentHashes, kycPaused>>

UpdateSanctionStatus(caller, user, sanctioned) ==
    /\ IF caller \in kycVerifierRole
       THEN /\ isSanctioned' = [isSanctioned EXCEPT ![user] = sanctioned]
            /\ kycData' = IF sanctioned /\ kycData[user].isVerified
                          THEN [kycData EXCEPT ![user].isVerified = FALSE]
                          ELSE kycData
       ELSE UNCHANGED <<isSanctioned, kycData>>
    /\ UNCHANGED <<usedDocumentHashes, kycPaused>>

\* function isVerified(address user)
IsVerifiedView(user) ==
    /\ kycData[user].isVerified
    /\ kycData[user].expiresAt > now
    /\ ~isSanctioned[user]
    /\ kycData[user].riskLevel # "BLOCKED"

\* pause() and unpause()
KycSetPaused(caller, p) ==
    /\ kycPaused' = IF caller = Admin /\ kycPaused # p THEN p ELSE kycPaused
    /\ UNCHANGED <<kycData, isSanctioned, usedDocumentHashes>>

\* after initialize(): the deployer holds every role
InitKyc ==
    /\ kycData = [u \in KycUsers |-> NoKyc]
    /\ isSanctioned = [u \in KycUsers |-> FALSE]
    /\ usedDocumentHashes = {}
    /\ kycPaused = FALSE

InitOff == InitApi /\ InitRetry /\ InitOracle /\ InitKyc

InitSrc == InitSrcAt([id \in TokenIds |-> IF id = 1 THEN "alice" ELSE "bob"], 3)

vars == <<dstVars, srcVars>>

\* one transferId, every caller and every administrative operation;
\* deployed with a positive quorum (scripts/deploy.ts passes 2)
Init == InitDst(1..MaxQuorum) /\ InitSrc /\ InitObs /\ InitOff
Next ==
    \/ \E caller \in Addresses, to \in Recipients, ids \in Batches :
          ApproveAndMint(caller, "T1", to, ids)
    \/ MintLoop /\ UNCHANGED srcVars
    \/ AdminDst /\ UNCHANGED srcVars
Spec == Init /\ [][Next]_vars

\* two transferIds whose batches share token ids, attested by r1 and rc
SharedCallers == {"r1", "rc"}
NextShared ==
    \/ \E caller \in SharedCallers, t \in Transfers, to \in Recipients, ids \in Batches :
          ApproveAndMint(caller, t, to, ids)
    \/ MintLoop /\ UNCHANGED srcVars
    \/ WrappedPause(Admin) /\ UNCHANGED srcVars
    \/ WrappedUnpause(Admin) /\ UNCHANGED srcVars
SpecShared == Init /\ [][NextShared]_vars

\* the source bridge with its collection, under the rate limit it was
\* initialised with (SpecRate and SpecBridges change the limit)
NextSrc ==
    \/ \E caller \in SrcCallers, ids \in SrcBatches, to \in SrcRecipients :
          LockERC721Batch(caller, ids, to) /\ UNCHANGED obsVars
    \/ \E caller \in SrcCallers, to \in Holders, ids \in SrcBatches :
          ReleaseERC721Batch(caller, to, ids) /\ UNCHANGED obsVars
    \/ \E caller \in SrcCallers : SrcPause(caller) /\ UNCHANGED obsVars
    \/ \E caller \in SrcCallers : SrcUnpause(caller) /\ UNCHANGED obsVars
    \/ \E holder \in Holders, approved \in BOOLEAN : SetApprovalForAll(holder, approved) /\ UNCHANGED obsVars
    \/ \E p \in BOOLEAN : NftSetPaused(p) /\ UNCHANGED obsVars
    \/ Tick /\ UNCHANGED obsVars
InitSrcSide == InitDst({2}) /\ InitSrc /\ InitObs /\ InitOff
SpecSrc == InitSrcSide /\ [][NextSrc]_vars

\* the rate limit of one sender who holds the whole collection: the admin may
\* set any uint256 as window, also the largest
RateWindows == {2, MaxUint}
NextRate ==
    \/ \E ids \in SrcBatches, to \in SrcRecipients : LockERC721Batch("alice", ids, to) /\ UNCHANGED obsVars
    \/ \E ids \in SrcBatches : ReleaseERC721Batch(Admin, "alice", ids) /\ UNCHANGED obsVars
    \/ \E w \in RateWindows, m \in Limits : SetRateLimit(Admin, w, m) /\ UNCHANGED obsVars
    \/ \E approved \in BOOLEAN : SetApprovalForAll("alice", approved) /\ UNCHANGED obsVars
    \/ Tick /\ UNCHANGED obsVars
InitRate == InitDst({2}) /\ InitSrcAt([id \in TokenIds |-> "alice"], 2) /\ InitObs /\ InitOff
SpecRate == InitRate /\ [][NextRate]_vars

\* one sender under a rate limit that is never changed, her locks recorded by time
NextWindow ==
    \/ \E ids \in SrcBatches, to \in SrcRecipients :
          /\ LockERC721Batch("alice", ids, to)
          /\ RecordLockedAt("alice", ids)
          /\ UNCHANGED <<locker, offVars>>
    \/ \E ids \in SrcBatches : ReleaseERC721Batch(Admin, "alice", ids) /\ UNCHANGED obsVars
    \/ \E approved \in BOOLEAN : SetApprovalForAll("alice", approved) /\ UNCHANGED obsVars
    \/ Tick /\ UNCHANGED obsVars
SpecWindow == InitRate /\ [][NextWindow]_vars

\* the escrow of the source bridge, each token's locker recorded; the operator
\* may name any target, also the bridge itself
EscrowTargets == Holders \cup {Bridge}
NextEscrow ==
    \/ \E caller \in Holders, ids \in SrcBatches, to \in SrcRecipients :
          /\ LockERC721Batch(caller, ids, to)
          /\ RecordLocker(caller, ids)
          /\ UNCHANGED <<lockedAt, offVars>>
    \/ \E caller \in {Admin, "alice"}, to \in EscrowTargets, ids \in SrcBatches :
          /\ ReleaseERC721Batch(caller, to, ids)
          /\ ForgetLocker
          /\ UNCHANGED <<lockedAt, offVars>>
    \/ \E holder \in Holders, approved \in BOOLEAN :
          SetApprovalForAll(holder, approved) /\ UNCHANGED obsVars
    \/ \E caller \in {Admin, "alice"}, id \in TokenIds :
          /\ BurnAsset(caller, id)
          /\ ForgetLocker
          /\ UNCHANGED <<lockedAt, offVars>>
SpecEscrow == InitSrcSide /\ [][NextEscrow]_vars

\* both bridges, with callers that hold a role and callers that do not, and
\* with valid and invalid arguments
RoleCallers == {Admin, "r1", "user"}
SrcRoleCallers == {Admin, "alice"}
NextBridges ==
    \/ \E caller \in RoleCallers, to \in {ZERO, "user"}, ids \in {<<>>, <<1>>} :
          ApproveAndMint(caller, "T1", to, ids)
    \/ MintTo /\ UNCHANGED srcVars
    \/ Finish /\ UNCHANGED srcVars
    \/ \E caller \in RoleCallers, n \in 1..MaxQuorum :
          SetRequiredApprovals(caller, n) /\ UNCHANGED srcVars
    \/ \E caller \in RoleCallers : Pause(caller) /\ UNCHANGED srcVars
    \/ \E caller \in RoleCallers : Unpause(caller) /\ UNCHANGED srcVars
    \/ \E ids \in {<<>>, <<1>>}, to \in SrcRecipients :
          LockERC721Batch("alice", ids, to) /\ UNCHANGED obsVars
    \/ \E caller \in SrcRoleCallers :
          ReleaseERC721Batch(caller, "alice", <<1>>) /\ UNCHANGED obsVars
    \/ \E caller \in SrcRoleCallers, m \in Limits :
          SetRateLimit(caller, 2, m) /\ UNCHANGED obsVars
    \/ \E caller \in SrcRoleCallers : SrcPause(caller) /\ UNCHANGED obsVars
    \/ \E caller \in SrcRoleCallers : SrcUnpause(caller) /\ UNCHANGED obsVars
    \/ SetApprovalForAll("alice", TRUE) /\ UNCHANGED obsVars
SpecBridges == Init /\ [][NextBridges]_vars

\* the destination bridge as initialize leaves it for any _requiredApprovals
InitAnyQuorum == InitDst(0..MaxQuorum) /\ InitSrc /\ InitObs /\ InitOff
SpecAnyQuorum == InitAnyQuorum /\ [][Next]_vars

\* ------------------------------------------------------------ properties

\* the state the chain has committed: inside a transaction, the state at its start
Committed == IF stack = <<>> THEN Snapshot ELSE stack[1].snap

BatchIds(f) == SeqToSet(f.ids)

\* C1: for every transferId, WrappedMinted is emitted at most once and the
\* minting loop runs at most once, whatever calls are made.
C1_MintedAtMostOnce ==
    stack = <<>> =>
        \A t \in Transfers : minted[t] <= 1 /\ loopRuns[t] <= 1

\* C2: the call that makes a transferId processed mints to the recipient and
\* the token ids that every counted relayer attested.
C2_MintMatchesAttestations ==
    [][Finish => /\ unanimous[Top.t]
                 /\ firstArgs[Top.t] = <<Top.to, Top.ids>>]_vars

\* C3: between transactions, count >= requiredApprovals implies processed.
C3_QuorumImpliesProcessed ==
    stack = <<>> =>
        \A t \in Transfers :
            approvals[t].count >= requiredApprovals => approvals[t].processed

\* a step is a call of approveAndMint for t by one of callers with valid arguments
IsValidCall(callers, t) ==
    \E c \in callers, to \in Recipients \ {ZERO}, ids \in Batches \ {<<>>} :
        ApproveAndMint(c, t, to, ids)

\* a step is a call of approveAndMint for t by one of callers
IsCall(callers, t) ==
    \E c \in callers, to \in Recipients, ids \in Batches :
        ApproveAndMint(c, t, to, ids)

\* C4: processed is monotonic over the committed state, and every
\* approveAndMint call for a processed transferId is rejected (as "already
\* processed" once the call passes the pause, role and argument checks) and
\* changes neither count, the approvers nor any wrapped-token ownership.
C4_ProcessedIsFinal ==
    [][\A t \in Transfers :
        /\ Committed.approvals[t].processed => Committed'.approvals[t].processed
        /\ (approvals[t].processed
              /\ ~(/\ UNCHANGED <<stack, dstState>>
                   /\ result' \in {"paused", "unauthorized", "bad recipient",
                                   "empty batch", "already processed"}))
              => ~IsCall(Addresses, t)
        /\ (approvals[t].processed /\ ~paused /\ result' # "already processed")
              => ~IsValidCall(Relayers, t)]_vars

C4_Witness ==
    /\ stack = <<>>
    /\ approvals["T1"].processed
    /\ approvals["T1"].approvers = {"r1", "r2"}
    /\ result = "already processed"

\* C5: a relayer that already attested a not-yet-processed transferId is
\* rejected with count unchanged, and any step that raises count raises it by
\* one for one relayer that was not an approver before.
C5_OneVotePerRelayer ==
    [][\A t \in Transfers :
        /\ ~(/\ UNCHANGED <<stack, dstState>>
             /\ result' \notin {"approved", "running", "minted"})
              => ~IsCall(approvals[t].approvers, t)
        /\ (~approvals[t].processed /\ ~paused /\ result' # "already approved")
              => ~IsValidCall(approvals[t].approvers, t)
        /\ approvals'[t].count > approvals[t].count =>
              /\ approvals'[t].count = approvals[t].count + 1
              /\ \E c \in Relayers \ approvals[t].approvers :
                    approvals'[t].approvers = approvals[t].approvers \cup {c}]_vars

C5_Witness ==
    /\ stack = <<>>
    /\ ~approvals["T1"].processed
    /\ approvals["T1"].count = 1
    /\ approvals["T1"].approvers = {"r1"}
    /\ result = "already approved"

\* C6: an attestation that leaves count below requiredApprovals mints nothing
\* and leaves the transfer unprocessed (it stays Collecting); the attestation
\* that brings count to requiredApprovals starts the minting loop in that same
\* call, and processed is set by the call that ran the loop; once the loop has
\* started for a transferId no further attestation is counted for it (with
\* quorum 2 the second attestation mints and a third one is rejected).
C6_QuorumTransition ==
    [][\A t \in Transfers :
        /\ loopRuns'[t] > loopRuns[t] =>
              /\ approvals'[t].count >= requiredApprovals
              /\ approvals'[t].count = approvals[t].count + 1
        /\ (approvals'[t].count > approvals[t].count
              /\ approvals'[t].count < requiredApprovals) =>
              /\ result' = "approved"
              /\ stack' = stack
              /\ ~approvals'[t].processed
              /\ UNCHANGED <<owners, existsMap, minted, loopRuns, mintCount>>
        /\ (approvals'[t].count > approvals[t].count
              /\ approvals'[t].count >= requiredApprovals) =>
              /\ result' = "running"
              /\ Len(stack') = Len(stack) + 1
              /\ loopRuns'[t] = loopRuns[t] + 1
        /\ (~approvals[t].processed /\ approvals'[t].processed) =>
              /\ stack # <<>>
              /\ Top.t = t
              /\ Top.i > Len(Top.ids)
              /\ approvals[t].count >= requiredApprovals
              /\ minted'[t] = minted[t] + 1
        /\ approvals'[t].count > approvals[t].count => loopRuns[t] = 0]_vars

\* C7: each wrapped token id is minted at most once, and mintTo goes through
\* only for an id that does not exist.
C7_TokenMintedOnce ==
    /\ [](\A id \in TokenIds : mintCount[id] <= 1)
    /\ [][MintTo => /\ ~existsMap[Top.ids[Top.i]]
                     /\ owners[Top.ids[Top.i]] = ZERO]_vars

\* two processed transfers whose batches both name token 1
C7_Witness ==
    /\ stack = <<>>
    /\ \A t \in Transfers :
          /\ approvals[t].processed
          /\ unanimous[t]
          /\ 1 \in SeqToSet(firstArgs[t][2])
    /\ firstArgs["T1"][1] # firstArgs["T2"][1]
    /\ mintCount[1] = 1

\* C8: a loop iteration over an existing id only moves on to the next id; a
\* call that completes its loop is marked processed with every id of its
\* batch existing, the ids that existed at its start keeping their owner and
\* the others minted once; and a call fails only if its batch names an id
\* that did not exist at its start.
C8_ExistingIdsSkipped ==
    [][/\ (InLoop /\ existsMap[Top.ids[Top.i]]) =>
             /\ stack' = SetTop([Top EXCEPT !.i = @ + 1])
             /\ UNCHANGED dstState
       /\ Finish =>
             /\ approvals'[Top.t].processed
             /\ \A id \in BatchIds(Top) :
                   /\ existsMap'[id]
                   /\ Top.snap.existsMap[id] => owners'[id] = Top.snap.owners[id]
                   /\ ~Top.snap.existsMap[id] =>
                         mintCount'[id] = Top.snap.mintCount[id] + 1
       /\ (stack # <<>> /\ stack' = Pop /\ result' = "mint failed") =>
             \E id \in BatchIds(Top) : ~Top.snap.existsMap[id]]_vars

\* a top-level call is through its loop over a batch of which one id existed
\* at its start and another did not
C8_Witness ==
    /\ Len(stack) = 1
    /\ Top.phase = "loop"
    /\ Top.i > Len(Top.ids)
    /\ \E a, b \in BatchIds(Top) :
          /\ Top.snap.existsMap[a]
          /\ ~Top.snap.existsMap[b]
          /\ owners[a] # Top.to
          /\ owners[b] = Top.to

\* ------------------------------------------------- source-side properties

Distinct(ids) == \A j, k \in 1..Len(ids) : j # k => ids[j] # ids[k]
OwnsAll(c, ids) == \A k \in 1..Len(ids) : nftOwner[ids[k]] = c
Escrow == {id \in TokenIds : nftOwner[id] = Bridge}

\* every transferFrom(c, bridge, ids[k]) of the batch goes through
Lockable(c, ids) ==
    /\ OwnsAll(c, ids)
    /\ Distinct(ids)
    /\ c \in nftApproved
    /\ ~nftPaused

\* C9: a lockERC721Batch call in which the transfer of some id of the batch
\* fails changes no owner, no rate window, not the nonce, and emits no event.
C9_LockAllOrNothing ==
    [][(\/ ~UNCHANGED <<windowStart, windowCount, nonce, nftOwner, initiated>>
        \/ srcResult'.res = "locked")
          => \A c \in SrcCallers, ids \in SrcBatches, to \in SrcRecipients :
                ~Lockable(c, ids) => ~LockERC721Batch(c, ids, to)]_vars

\* a lock failed at its second transfer, after the window reset and the
\* admission of its two tokens and the first transfer: nothing of it is left
C9_Witness ==
    /\ srcResult = Res("transfer failed", 2)
    /\ nftOwner[1] = "alice"
    /\ nftOwner[2] = "bob"
    /\ nftApproved = Holders
    /\ windowStart = [u \in SrcCallers |-> 0]
    /\ windowCount = [u \in SrcCallers |-> 0]
    /\ now >= windowSeconds
    /\ nonce = 1
    /\ initiated = <<>>

\* C10: a lockERC721Batch call succeeds only if the caller owns every id of
\* the batch and the ids are pairwise distinct; a batch that names an id held
\* by the bridge or repeats an id is rejected and the escrow stays as it was.
C10_LockNeedsOwnedDistinct ==
    [][(\/ srcResult'.res = "locked"
        \/ Escrow' # Escrow)
          => \A c \in SrcCallers, ids \in SrcBatches, to \in SrcRecipients :
                LockERC721Batch(c, ids, to) =>
                   /\ OwnsAll(c, ids)
                   /\ Distinct(ids)
                   /\ SeqToSet(ids) \cap Escrow = {}
                   /\ Escrow' = Escrow \cup SeqToSet(ids)]_vars

\* with token 1 in escrow, a lock was rejected at its first transfer
C10_Witness ==
    /\ srcResult = Res("transfer failed", 1)
    /\ Escrow = TokenIds
    /\ nftApproved = Holders
    /\ ~nftPaused
    /\ Len(initiated) = 2

\* the field tuples a BridgeInitiated event can carry besides its nonce
LockFields == SrcCallers \X (SrcRecipients \ {ZERO}) \X (SrcBatches \ {<<>>})

\* C11: the nonces of the BridgeInitiated events are 1, 2, 3, ... in order and
\* nonce is the next one; only a successful lock changes nonce, by one; and
\* two events never carry the same transferId, whatever their other fields.
C11_NonceStrictlyIncreasing ==
    /\ [](/\ nonce = Len(initiated) + 1
          /\ \A k \in 1..Len(initiated) : initiated[k] = k
          /\ \A j, k \in 1..Len(initiated) :
                j # k => \A f, g \in LockFields :
                   TransferId(f[1], f[2], f[3], initiated[j])
                      # TransferId(g[1], g[2], g[3], initiated[k]))
    /\ [][(nonce' # nonce \/ initiated' # initiated) =>
             /\ srcResult'.res = "locked"
             /\ nonce' = nonce + 1
             /\ initiated' = Append(initiated, nonce)]_vars
    /\ [][(srcResult' # srcResult /\ srcResult'.res # "locked") =>
             nonce' = nonce /\ initiated' = initiated]_vars

\* three locks went through
C11_Witness ==
    /\ initiated = <<1, 2, 3>>
    /\ nonce = 4
    /\ srcResult.res = "locked"

\* ------------------------------------------------------ rate limit

\* the reference rule: the count the request is measured against, and admission
RefReset(u) == now - windowStart[u] >= windowSeconds
RefCount(u) == IF RefReset(u) THEN 0 ELSE windowCount[u]
RefAdmits(u, n) == RefCount(u) + n <= maxPerWindow

\* a lock that reaches _checkRateLimit: bridge not paused, batch and recipient valid
ReachesRateLimit(ids, to) == ~srcPaused /\ Len(ids) > 0 /\ to # ZERO

\* C12: every lockERC721Batch call that reaches _checkRateLimit is let through
\* by it exactly when the reference rule admits it; a lock that goes through
\* leaves windowCount = c + n and windowStart = now after a reset, unchanged
\* otherwise; a rejected one leaves windowStart and windowCount unchanged.
C12_RateLimitMatchesReference ==
    [][\A c \in SrcCallers, ids \in SrcBatches, to \in SrcRecipients :
        (ReachesRateLimit(ids, to) /\ LockERC721Batch(c, ids, to)) =>
           /\ (srcResult'.res \in {"locked", "transfer failed"})
                 <=> RefAdmits(c, Len(ids))
           /\ srcResult'.res = "locked" =>
                 /\ windowCount'[c] = RefCount(c) + Len(ids)
                 /\ windowStart'[c] = IF RefReset(c) THEN now ELSE windowStart[c]
           /\ srcResult'.res # "locked" =>
                 UNCHANGED <<windowStart, windowCount>>]_vars

\* C13 as stated: windowCount[sender] <= maxPerWindow in every reachable state.
C13_CountWithinLimit ==
    \A u \in SrcCallers : windowCount[u] <= maxPerWindow

\* C13, amended: windowCount changes only in a lock that goes through, which
\* leaves the sender's count within the maxPerWindow in force at that call;
\* a count that a later setRateLimit left above the limit stays as it is
\* while its window lasts.
C13_CountWithinLimitAtAdmission ==
    [][\A u \in SrcCallers :
        /\ windowCount'[u] # windowCount[u] =>
              /\ srcResult'.res = "locked"
              /\ maxPerWindow' = maxPerWindow
              /\ windowCount'[u] <= maxPerWindow
        /\ (windowCount[u] > maxPerWindow
              /\ windowStart[u] + windowSeconds <= MaxUint
              /\ now < windowStart[u] + windowSeconds) =>
              windowCount'[u] = windowCount[u]]_vars

\* the admin lowered the limit under the sender's count, and the sender's
\* next lock in that window was turned down
C13_Witness ==
    /\ windowCount["alice"] = 2
    /\ maxPerWindow = 1
    /\ now < windowStart["alice"] + windowSeconds
    /\ srcResult.res = "rate limit"

\* tokens u locked at the times a, a + 1, ..., b - 1
RECURSIVE LockedIn(_, _, _)
LockedIn(u, a, b) ==
    IF a >= b THEN 0
    ELSE (IF a \in 0..MaxTime THEN lockedAt[u][a] ELSE 0) + LockedIn(u, a + 1, b)

\* C14 as stated: a sender locks at most maxPerWindow tokens within any
\* interval [t, t + windowSeconds).
C14_SlidingWindowBound ==
    \A u \in SrcCallers, t \in 0..MaxTime :
        LockedIn(u, t, t + windowSeconds) <= maxPerWindow

\* C14, amended: the tokens a sender locked within her current window
\* [windowStart, windowStart + windowSeconds) are windowCount, at most
\* maxPerWindow; an interval of length windowSeconds can lie across two
\* windows and holds at most 2 * maxPerWindow.
C14_FixedWindowBound ==
    \A u \in SrcCallers :
        /\ LockedIn(u, windowStart[u], windowStart[u] + windowSeconds) = windowCount[u]
        /\ windowCount[u] <= maxPerWindow
        /\ \A t \in 0..MaxTime :
              LockedIn(u, t, t + windowSeconds) <= 2 * maxPerWindow

\* three tokens within two consecutive seconds under a limit of two per two
\* seconds: the last of one window and the whole quota of the next
C14_Witness ==
    /\ windowSeconds = 2
    /\ maxPerWindow = 2
    /\ windowStart["alice"] = now
    /\ windowCount["alice"] = 2
    /\ lockedAt["alice"][now - 1] = 1
    /\ lockedAt["alice"][now] = 2

\* ------------------------------------------------------------- escrow

\* C15: a token leaves the bridge's custody only in a releaseERC721Batch call
\* that goes through, and then it goes to the address whose lock put it in
\* escrow.
C15_ReleaseBackToLocker ==
    [][\A id \in TokenIds :
        (nftOwner[id] = Bridge /\ nftOwner'[id] # Bridge) =>
           /\ \E c \in SrcCallers, to \in EscrowTargets, ids \in SrcBatches :
                 ReleaseERC721Batch(c, to, ids)
           /\ nftOwner'[id] = locker[id]]_vars

\* C16: a releaseERC721Batch call whose batch names an id the bridge does not
\* hold fails and moves no token; a release that goes through to another
\* address leaves none of its ids with the bridge, so releasing an id again,
\* in a later call or later in the same batch, fails for every target.
C16_ReleaseNeedsEscrow ==
    [][\A c \in SrcCallers, to \in EscrowTargets, ids \in SrcBatches :
        ReleaseERC721Batch(c, to, ids) =>
           /\ (\E k \in 1..Len(ids) : nftOwner[ids[k]] # Bridge) =>
                 /\ srcResult'.res # "released"
                 /\ nftOwner' = nftOwner
           /\ (~Distinct(ids) /\ to # Bridge) =>
                 /\ srcResult'.res # "released"
                 /\ nftOwner' = nftOwner
           /\ (srcResult'.res = "released" /\ to # Bridge) =>
                 \A k \in 1..Len(ids) : nftOwner'[ids[k]] = to]_vars

\* one lock went through, nothing is in escrow any more and no token was
\* burnt, and the release that returned last failed at its first id
C16_Witness ==
    /\ srcResult = Res("release failed", 1)
    /\ initiated = <<1>>
    /\ Escrow = {}
    /\ \A id \in TokenIds : nftOwner[id] \in Holders

\* -------------------------------------------------------------- pause

\* C17: while the source bridge is paused every lockERC721Batch call is
\* rejected, and no step changes the escrow, the rate windows or the nonce;
\* while the destination bridge is paused every approveAndMint call is
\* rejected and no step changes a transferId's approval state.
C17_PauseFreezes ==
    [][/\ srcPaused =>
             /\ \A c \in SrcCallers, ids \in SrcBatches, to \in SrcRecipients :
                   LockERC721Batch(c, ids, to) => srcResult'.res = "paused"
             /\ Escrow' = Escrow
             /\ UNCHANGED <<windowStart, windowCount, nonce, initiated>>
       /\ paused =>
             /\ \A c \in Addresses, t \in Transfers, to \in Recipients, ids \in Batches :
                   ApproveAndMint(c, t, to, ids) => result' = "paused"
             /\ UNCHANGED <<approvals, owners, existsMap>>]_vars

\* -------------------------------------------------------------- roles

dstContract == <<requiredApprovals, paused, wrappedPaused, stack, dstState>>
srcContract == <<rateVars, nonce, srcPaused, nftVars, initiated>>

\* C18: approveAndMint by a caller without RELAYER_ROLE (the admin among
\* them), setRequiredApprovals, setRateLimit, pause and unpause by a caller
\* without DEFAULT_ADMIN_ROLE, and releaseERC721Batch by a caller without
\* OPERATOR_ROLE are rejected and change nothing.
C18_RolesEnforced ==
    [][/\ \A c \in Addresses \ Relayers, t \in Transfers,
             to \in Recipients, ids \in Batches :
             ApproveAndMint(c, t, to, ids) =>
                /\ result' \in {"paused", "unauthorized"}
                /\ UNCHANGED dstContract
       /\ \A c \in Addresses \ {Admin} :
             (\/ \E n \in 0..MaxQuorum : SetRequiredApprovals(c, n)
              \/ Pause(c)
              \/ Unpause(c)) => (result' = "unauthorized" /\ UNCHANGED dstContract)
       /\ \A c \in SrcCallers \ {Admin} :
             /\ (\/ \E w \in Windows, m \in Limits : SetRateLimit(c, w, m)
                 \/ SrcPause(c)
                 \/ SrcUnpause(c)) => UNCHANGED srcContract
             /\ (\E to \in EscrowTargets, ids \in SrcBatches :
                    ReleaseERC721Batch(c, to, ids)) =>
                   (srcResult'.res = "unauthorized" /\ UNCHANGED srcContract)]_vars

\* with one relayer's attestation counted and a token in escrow, the admin's
\* attestation and a holder's release were both turned down
C18_Witness ==
    /\ result = "unauthorized"
    /\ requiredApprovals = 2
    /\ approvals["T1"].count = 1
    /\ approvals["T1"].approvers = {"r1"}
    /\ srcResult.res = "unauthorized"
    /\ Escrow = {1}

\* C19: an approveAndMint call or a lockERC721Batch call with an empty batch
\* or a zero recipient is rejected and changes nothing: no approver, no
\* count, no window, no nonce, no owner.
C19_InvalidBatchRejected ==
    [][/\ \A c \in Addresses, t \in Transfers, to \in Recipients, ids \in Batches :
             ((to = ZERO \/ ids = <<>>) /\ ApproveAndMint(c, t, to, ids)) =>
                /\ result' \in {"paused", "unauthorized", "bad recipient", "empty batch"}
                /\ UNCHANGED dstContract
       /\ \A c \in SrcCallers, ids \in SrcBatches, to \in SrcRecipients :
             ((to = ZERO \/ ids = <<>>) /\ LockERC721Batch(c, ids, to)) =>
                /\ srcResult'.res \in {"paused", "empty batch", "bad recipient"}
                /\ UNCHANGED srcContract]_vars

\* a relayer with a zero recipient and a holder with an empty batch were
\* turned down while an attestation is counted and a token is in escrow
C19_Witness ==
    /\ result = "bad recipient"
    /\ approvals["T1"].count = 1
    /\ ~approvals["T1"].processed
    /\ srcResult.res = "empty batch"
    /\ Escrow = {1}
    /\ windowCount["alice"] = 1
    /\ nonce = 2

\* C20: requiredApprovals > 0 in every reachable state, whatever was passed
\* to initialize and to setRequiredApprovals.
C20_QuorumPositive == requiredApprovals > 0

\* ------------------------------------------------------------ liveness

\* one transfer that every relayer attests with the arguments of its first
\* counted attestation, to an account or to a contract, while the admin may
\* pause and unpause the bridge and the wrapped collection
LiveRecipients == {"user", "rc"}
LiveBatches == {<<1>>, <<1, 2>>}
Attest(caller) ==
    \E to \in LiveRecipients, ids \in LiveBatches :
        /\ approvals["T1"].count = 0 \/ firstArgs["T1"] = <<to, ids>>
        /\ ApproveAndMint(caller, "T1", to, ids)
CallbackReturn == (CallbackAccept \/ CallbackReject) /\ UNCHANGED srcVars
NextLive ==
    \/ \E caller \in Relayers : Attest(caller)
    \/ MintLoop /\ UNCHANGED srcVars
    \/ Pause(Admin) /\ UNCHANGED srcVars
    \/ Unpause(Admin) /\ UNCHANGED srcVars
    \/ WrappedPause(Admin) /\ UNCHANGED srcVars
    \/ WrappedUnpause(Admin) /\ UNCHANGED srcVars

\* every relayer keeps calling (weak fairness on its calls); a transaction
\* runs to its end: the loop goes on, and a callback returns even if it makes
\* calls of its own, since gas is finite
FairLive ==
    /\ \A caller \in Relayers : WF_vars(Attest(caller))
    /\ WF_vars(MintLoop /\ UNCHANGED srcVars)
    /\ SF_vars(CallbackReturn)
SpecLive == Init /\ [][NextLive]_vars /\ FairLive

\* the transferId is processed and its WrappedMinted event is out
Delivered == approvals["T1"].processed /\ minted["T1"] >= 1

RECURSIVE MintBatch(_, _, _, _)
MintBatch(s, to, ids, i) ==
    IF i > Len(ids) THEN [ok |-> TRUE, s |-> s, mints |-> {}]
    ELSE LET id == ids[i] IN
         IF s.existsMap[id] THEN MintBatch(s, to, ids, i + 1)
         ELSE IF wrappedPaused \/ s.owners[id] # ZERO
              THEN [ok |-> FALSE, s |-> s, mints |-> {}]
              ELSE LET r == MintBatch([s EXCEPT !.owners[id] = to,
                                                !.existsMap[id] = TRUE,
                                                !.mintCount[id] = @ + 1],
                                      to, ids, i + 1)
                   IN IF r.ok THEN [r EXCEPT !.mints = @ \cup {<<id, to>>}] ELSE r

\* approveAndMint(t, to, ids) by caller as one transaction over the state
\* record s: the state it leaves, its outcome, and the tokens it minted
CallApproveAndMint(s, caller, t, to, ids) ==
    LET st == s.approvals[t]
        why == IF paused THEN "paused"
               ELSE IF caller \notin Relayers THEN "unauthorized"
               ELSE IF to = ZERO THEN "bad recipient"
               ELSE IF Len(ids) = 0 THEN "empty batch"
               ELSE IF st.processed THEN "already processed"
               ELSE IF caller \in st.approvers THEN "already approved"
               ELSE "ok"
        n == st.count + 1
        first == IF st.count = 0 THEN <<to, ids>> ELSE s.firstArgs[t]
        s1 == [s EXCEPT !.approvals[t].approvers = @ \cup {caller},
                        !.approvals[t].count = n,
                        !.firstArgs[t] = first,
                        !.unanimous[t] = @ /\ first = <<to, ids>>]
        loop == MintBatch([s1 EXCEPT !.loopRuns[t] = @ + 1], to, ids, 1)
    IN IF why # "ok" THEN [s |-> s, res |-> why, mints |-> {}]
       ELSE IF ~QuorumMet(n) THEN [s |-> s1, res |-> "approved", mints |-> {}]
       ELSE IF ~loop.ok THEN [s |-> s, res |-> "mint failed", mints |-> {}]
       ELSE [s |-> [loop.s EXCEPT !.approvals[t].processed = TRUE,
                                  !.minted[t] = @ + 1],
             res |-> "minted", mints |-> loop.mints]

\* the state of the source bridge and its collection that a lock reads or writes
SrcSnapshot ==
    [windowStart |-> windowStart, windowCount |-> windowCount,
     nftOwner |-> nftOwner, nonce |-> nonce]

\* lockERC721Batch(ids, to) by caller as one transaction over the state record s
CallLockERC721Batch(s, caller, ids, to) ==
    LET reset == now >= s.windowStart[caller] + windowSeconds
        start == IF reset THEN now ELSE s.windowStart[caller]
        count == IF reset THEN 0 ELSE s.windowCount[caller]
        moved == TransferLoop(s.nftOwner, caller, Bridge, ids, 1)
        why == IF srcPaused THEN "paused"
               ELSE IF Len(ids) = 0 THEN "empty batch"
               ELSE IF to = ZERO THEN "bad recipient"
               ELSE IF \/ s.windowStart[caller] + windowSeconds > MaxUint
                       \/ count + Len(ids) > MaxUint THEN "panic"
               ELSE IF ~(count + Len(ids) <= maxPerWindow) THEN "rate limit"
               ELSE IF moved.failed # 0 THEN "transfer failed"
               ELSE "locked"
    IN IF why # "locked" THEN [s |-> s, res |-> why]
       ELSE [s |-> [windowStart |-> [s.windowStart EXCEPT ![caller] = start],
                    windowCount |-> [s.windowCount EXCEPT ![caller] = count + Len(ids)],
                    nftOwner |-> moved.own,
                    nonce |-> s.nonce + 1],
             res |-> why]

\* the transactions agree with the calls of the bridges: a call that returns
\* at once, a call that ends its loop with no callback made, and a lock
CallsAgree ==
    [][/\ \A c \in Addresses, t \in Transfers, to \in Recipients, ids \in Batches :
            (stack = <<>> /\ ApproveAndMint(c, t, to, ids) /\ stack' = <<>>) =>
               LET r == CallApproveAndMint(Snapshot, c, t, to, ids)
               IN Snapshot' = r.s /\ result' = r.res /\ r.res # "minted"
       /\ (Len(stack) = 1 /\ Top.to \notin Contracts /\ (Finish \/ MintFail)) =>
             LET r == CallApproveAndMint(Top.snap, Top.caller, Top.t, Top.to, Top.ids)
             IN Snapshot' = r.s /\ result' = r.res
       /\ \A c \in SrcCallers, ids \in SrcBatches, to \in SrcRecipients :
            LockERC721Batch(c, ids, to) =>
               LET r == CallLockERC721Batch(SrcSnapshot, c, ids, to)
               IN SrcSnapshot' = r.s /\ srcResult'.res = r.res]_vars

\* the calls whose order is compared: attestations with valid arguments, and locks
PairRecipients == {"user", "rc"}
PairBatches == {<<1>>, <<2>>, <<1, 2>>}

\* approveAndMint by c for t1 and by d for t2, in both orders from the
\* current state: same outcome of each call, same tokens minted by each, same
\* final state
ApprovalsCommuteFor(c, t1, to1, ids1, d, t2, to2, ids2) ==
    LET a == CallApproveAndMint(Snapshot, c, t1, to1, ids1)
        ab == CallApproveAndMint(a.s, d, t2, to2, ids2)
        b == CallApproveAndMint(Snapshot, d, t2, to2, ids2)
        ba == CallApproveAndMint(b.s, c, t1, to1, ids1)
    IN /\ a.res = ba.res
       /\ a.mints = ba.mints
       /\ b.res = ab.res
       /\ b.mints = ab.mints
       /\ ab.s = ba.s

\* lockERC721Batch by c and by d, in both orders from the current state: same
\* outcome for each sender, same rate windows, owners and nonce at the end
LocksCommuteFor(c, ids1, to1, d, ids2, to2) ==
    LET a == CallLockERC721Batch(SrcSnapshot, c, ids1, to1)
        ab == CallLockERC721Batch(a.s, d, ids2, to2)
        b == CallLockERC721Batch(SrcSnapshot, d, ids2, to2)
        ba == CallLockERC721Batch(b.s, c, ids1, to1)
    IN /\ a.res = ba.res
       /\ b.res = ab.res
       /\ ab.s = ba.s

ApprovalsCommute ==
    \A c, d \in Relayers, to1, to2 \in PairRecipients, ids1, ids2 \in PairBatches :
        ApprovalsCommuteFor(c, "T1", to1, ids1, d, "T2", to2, ids2)

\* the same for batches that share no token id
DisjointApprovalsCommute ==
    \A c, d \in Relayers, to1, to2 \in PairRecipients, ids1, ids2 \in PairBatches :
        SeqToSet(ids1) \cap SeqToSet(ids2) = {} =>
            ApprovalsCommuteFor(c, "T1", to1, ids1, d, "T2", to2, ids2)

LocksCommute ==
    \A c, d \in SrcCallers, ids1, ids2 \in SrcBatches, to1, to2 \in SrcRecipients :
        c # d => LocksCommuteFor(c, ids1, to1, d, ids2, to2)

\* C22: between transactions, two approveAndMint calls for different
\* transferIds give the same outcomes, the same tokens minted to the same
\* owners and the same final state in either order, and two lockERC721Batch
\* calls of different senders give each sender the same outcome and the same
\* rate windows in either order.
C22_DifferentKeysCommute ==
    stack = <<>> => (ApprovalsCommute /\ LocksCommute)

\* ------------------------------------------- API rate limiter

\* everything the bridges own
bridgeVars == <<dstVars, rateVars, nonce, srcPaused, now, nftVars, initiated,
                srcResult, lockedAt, locker>>

exceptApi == <<bridgeVars, retryVars, oracleVars, kycVars>>

\* the clients' requests to the two kinds of route
NextApi ==
    \/ \E config \in Configs, ip \in Ips : RateLimit(config, ip) /\ UNCHANGED exceptApi
    \/ ClockTick /\ UNCHANGED exceptApi
InitApiSide == InitDst({2}) /\ InitSrc /\ InitObs /\ InitOff
SpecApi == InitApiSide /\ [][NextApi]_vars

\* requests of client ip the limiter configured with config let through at
\* the times a, a + 1, ..., b - 1
RECURSIVE PassedIn(_, _, _, _)
PassedIn(config, ip, a, b) ==
    IF a >= b THEN 0
    ELSE CopiesIn(<<config, ip, a>>, passed)
            + PassedIn(config, ip, a + 1, b)

\* C23: for every configuration and client, the limiter lets through at most
\* maxRequests requests within the windowMs that follow the first request of
\* a window, whatever other routes the client calls.
C23_PerEndpointLimit ==
    \A config \in Configs, ip \in Ips :
        \A t0 \in opened[ip] :
            PassedIn(config, ip, t0, t0 + config.windowMs) <= config.maxRequests

\* ------------------------------------------- uploadWithRetry

exceptRetry == <<bridgeVars, apiVars, oracleVars, kycVars>>

\* runs of uploadWithRetry with any maxRetries from 0 on, uploadFn resolving
\* or rejecting as it pleases
UploadReturns ==
    \/ \E v \in UploadResults : UploadResolves(v)
    \/ \E e \in UploadErrors : UploadRejects(e)
NextRetry ==
    \/ \E m \in 0..MaxRetries, d \in Delays : Invoke(m, d) /\ UNCHANGED exceptRetry
    \/ LoopTest /\ UNCHANGED exceptRetry
    \/ \E v \in UploadResults : UploadResolves(v) /\ UNCHANGED exceptRetry
    \/ \E e \in UploadErrors : UploadRejects(e) /\ UNCHANGED exceptRetry
    \/ TimerRuns /\ UNCHANGED exceptRetry
\* every uploadFn call terminates, every timer fires, the event loop goes on
FairRetry ==
    /\ WF_vars(LoopTest /\ UNCHANGED exceptRetry)
    /\ WF_vars(UploadReturns /\ UNCHANGED exceptRetry)
    /\ WF_vars(TimerRuns /\ UNCHANGED exceptRetry)
SpecRetry == InitApiSide /\ [][NextRetry]_vars /\ FairRetry

RetryDone == retryPc \in {"returned", "thrown"}

\* what C24 says of a run, for the runs with maxRetries in ms
RetryContract(ms) ==
    /\ [](maxRetries \in ms =>
            /\ uploadCalls <= maxRetries
            /\ RetryDone => uploadCalls >= 1
            /\ retryPc = "returned" =>
                  /\ retryValue.kind = "value"
                  /\ retryValue.message \in UploadResults
                  /\ uploadFailures = uploadCalls - 1
            /\ retryPc = "thrown" =>
                  /\ retryValue.kind = "ApiError"
                  /\ retryValue.status = 500
                  /\ uploadFailures = maxRetries
                  /\ uploadCalls = maxRetries)
    /\ (maxRetries \in ms /\ retryPc = "loop") ~> RetryDone

RetryContractFromOne == RetryContract(1..MaxRetries)

\* ------------------------------------------------- approval bookkeeping

\* C25: for every transferId, count is the number of relayers marked in
\* approvers, inside a transaction as well as between transactions, and the
\* count the chain has committed never decreases.
C25_CountIsApprovers ==
    /\ [](\A t \in Transfers :
            /\ approvals[t].approvers \subseteq Relayers
            /\ approvals[t].count = Cardinality(approvals[t].approvers)
            /\ Committed.approvals[t].count
                  = Cardinality(Committed.approvals[t].approvers))
    /\ [][\A t \in Transfers :
            /\ Committed'.approvals[t].count >= Committed.approvals[t].count
            /\ Committed.approvals[t].approvers
                  \subseteq Committed'.approvals[t].approvers]_vars

\* a quorum-reaching attestation was rolled back by a failed mint: the first
\* relayer's attestation is still the only one counted
C25_Witness ==
    /\ stack = <<>>
    /\ result = "mint failed"
    /\ requiredApprovals = 2
    /\ approvals["T1"].count = 1
    /\ approvals["T1"].approvers = {"r2"}

\* ------------------------------------------------------ WrappedMinted

\* C26: when WrappedMinted(transferId, to, tokenIds) is emitted, every id of
\* tokenIds exists on WrappedAsset721 and is owned by to.
C26_MintedEventOwnership ==
    [][Finish => \A id \in BatchIds(Top) :
                    /\ existsMap'[id]
                    /\ owners'[id] = Top.to]_vars

\* -------------------------------------------------------- re-entrancy

\* the transferIds whose approveAndMint call is running
RunningTransfers == {stack[k].t : k \in 1..Len(stack)}

\* C27: while a recipient's onERC721Received runs inside the minting loop of
\* a transferId, no call it makes starts the minting loop of that transferId
\* again or emits WrappedMinted for it.
C27_NoReentrantMint ==
    [][(stack # <<>> /\ Top.phase = "callback") =>
          \A t \in RunningTransfers :
             /\ loopRuns'[t] <= loopRuns[t]
             /\ minted'[t] <= minted[t]
             /\ Len(stack') > Len(stack) => stack'[Len(stack')].t # t]_vars

\* ---------------------------------------------------- failed mints

\* C28: when a mintTo of a quorum-reaching approveAndMint fails (the wrapped
\* contract is paused, or the recipient rejects the token), the call ends as
\* "mint failed" with its caller not among the approvers, count as before
\* the call, processed false and every token as it was before the call, so
\* that the same attestation passes the requires on processed and on the
\* approvers again.
C28_FailedMintIsAtomic ==
    [][(MintFail \/ CallbackReject) =>
          LET f == Top
              before == f.snap
          IN /\ result' = "mint failed"
             /\ stack' = Pop
             /\ f.caller \notin approvals'[f.t].approvers
             /\ approvals'[f.t].count = before.approvals[f.t].count
             /\ approvals'[f.t].count = Cardinality(approvals'[f.t].approvers)
             /\ ~approvals'[f.t].processed
             /\ minted'[f.t] = before.minted[f.t]
             /\ \A id \in TokenIds :
                   /\ owners'[id] = before.owners[id]
                   /\ existsMap'[id] = before.existsMap[id]
                   /\ mintCount'[id] = before.mintCount[id]]_vars

\* the recipient rejected a token of the first attestation under quorum 1:
\* nothing is counted and nothing is minted
C28_Witness ==
    /\ stack = <<>>
    /\ result = "mint failed"
    /\ ~wrappedPaused
    /\ requiredApprovals = 1
    /\ approvals["T1"] = ApprovalState0
    /\ \A id \in TokenIds : owners[id] = ZERO /\ ~existsMap[id] /\ mintCount[id] = 0

\* ------------------------------------------- verification oracle

\* everything of the bridges but block.timestamp
exceptNow == <<dstVars, rateVars, nonce, srcPaused, nftVars, initiated, srcResult,
               lockedAt, locker>>
exceptOracle == <<exceptNow, now, apiVars, retryVars, kycVars>>

\* requests, approvals, rejections and disputes by verifiers and others, while
\* the admin manages the verifiers, the quorum, the dispute period and the pause
NextOracle ==
    \/ \E paid, valid \in BOOLEAN :
          RequestVerification(paid, valid) /\ UNCHANGED exceptOracle
    \/ \E caller \in OracleCallers, id \in RequestIds :
          ApproveVerification(caller, id) /\ UNCHANGED exceptOracle
    \/ \E caller \in OracleCallers, id \in RequestIds :
          RejectVerification(caller, id) /\ UNCHANGED exceptOracle
    \/ \E caller \in OracleCallers, id \in RequestIds :
          DisputeVerification(caller, id) /\ UNCHANGED exceptOracle
    \/ \E caller \in OracleManagers, v \in Appraisers :
          AddVerifier(caller, v) /\ UNCHANGED exceptOracle
    \/ \E caller \in OracleManagers, v \in Appraisers :
          RemoveVerifier(caller, v) /\ UNCHANGED exceptOracle
    \/ \E caller \in OracleManagers, count \in 0..3 :
          OracleSetRequiredApprovals(caller, count) /\ UNCHANGED exceptOracle
    \/ \E caller \in OracleManagers, period \in DisputePeriods :
          SetDisputePeriod(caller, period) /\ UNCHANGED exceptOracle
    \/ \E caller \in OracleManagers, p \in BOOLEAN :
          OracleSetPaused(caller, p) /\ UNCHANGED exceptOracle
    \/ Tick /\ UNCHANGED <<lockedAt, locker, offVars>>
SpecOracle == InitApiSide /\ [][NextOracle]_vars

\* C29: a request's status changes only from Pending to Approved, in an
\* approveVerification call that adds one verifier who had not approved and
\* brings approvalCount to requiredApprovals or more, from Pending to Rejected,
\* or from Approved to Disputed; a Rejected or Disputed request never changes
\* again; approvalCount is the number of distinct verifiers that approved and
\* changes only while the request is Pending, by one.
C29_OracleStatusTransitions ==
    /\ [](\A id \in RequestIds :
            LET r == verificationRequests[id]
            IN /\ r.approvalCount = Cardinality(r.verifierApprovals)
               /\ r.status # "Pending" => r.exists)
    /\ [][\A id \in RequestIds :
            LET r == verificationRequests[id]
                q == verificationRequests'[id]
            IN /\ q.status # r.status =>
                    /\ r.exists
                    /\ \/ /\ r.status = "Pending"
                          /\ q.status = "Approved"
                          /\ q.approvalCount = r.approvalCount + 1
                          /\ q.approvalCount >= oracleRequiredApprovals
                          /\ \E c \in OracleCallers : ApproveVerification(c, id)
                       \/ /\ r.status = "Pending"
                          /\ q.status = "Rejected"
                          /\ \E c \in OracleCallers : RejectVerification(c, id)
                       \/ /\ r.status = "Approved"
                          /\ q.status = "Disputed"
                          /\ \E c \in OracleCallers : DisputeVerification(c, id)
               /\ r.status \in {"Rejected", "Disputed"} => q = r
               /\ q.approvalCount # r.approvalCount =>
                    /\ r.exists
                    /\ r.status = "Pending"
                    /\ q.approvalCount = r.approvalCount + 1
                    /\ \E c \in OracleCallers \ r.verifierApprovals :
                          q.verifierApprovals = r.verifierApprovals \cup {c}
                    /\ q.approvalCount >= oracleRequiredApprovals
                          => q.status = "Approved"]_vars

\* a request went from Pending over Approved, with the three approvals the
\* deployed quorum asks for, to Disputed
C29_Witness ==
    /\ oracleRequiredApprovals = 3
    /\ verificationRequests[1].status = "Disputed"
    /\ verificationRequests[1].approvalCount = 3

\* ------------------------------------------------------ KYC registry

exceptKyc == <<exceptNow, now, apiVars, retryVars, oracleVars>>

\* what a batch names for a user: the user and the document
BatchEntries ==
    [user : KycUsers, documentHash : DocumentHashes \ {""},
     riskLevel : {"LOW"}, expiresAt : {MaxTime + 1}]
KycBatches == UNION {[1..n -> BatchEntries] : n \in 0..MaxBatch}

\* verifiers, strangers and the admin calling every function of the registry
NextKyc ==
    \/ \E caller \in KycCallers, user \in KycUsers \cup {ZERO}, h \in DocumentHashes,
          r \in RiskLevels, e \in ExpiryTimes :
          VerifyUser(caller, user, h, r, e) /\ UNCHANGED exceptKyc
    \/ \E caller \in KycCallers, entries \in KycBatches, sameLength \in BOOLEAN :
          BatchVerifyUsers(caller, entries, sameLength) /\ UNCHANGED exceptKyc
    \/ \E caller \in KycCallers, user \in KycUsers :
          RevokeVerification(caller, user) /\ UNCHANGED exceptKyc
    \/ \E caller \in KycCallers, user \in KycUsers, r \in RiskLevels :
          UpdateRiskLevel(caller, user, r) /\ UNCHANGED exceptKyc
    \/ \E caller \in KycCallers, user \in KycUsers, sanctioned \in BOOLEAN :
          UpdateSanctionStatus(caller, user, sanctioned) /\ UNCHANGED exceptKyc
    \/ \E caller \in KycCallers, p \in BOOLEAN :
          KycSetPaused(caller, p) /\ UNCHANGED exceptKyc
    \/ Tick /\ UNCHANGED <<lockedAt, locker, offVars>>
SpecKyc == InitApiSide /\ [][NextKyc]_vars

\* C30: a sanctioned user has kycData.isVerified false and isVerified(user)
\* false; no call, verifyUser and batchVerifyUsers included, changes the
\* record of a user who was sanctioned when it began, so none verifies that
\* user; and when a sanction is lifted the user is still not verified.
C30_SanctionedNeverVerified ==
    /\ [](\A u \in KycUsers :
            isSanctioned[u] => ~kycData[u].isVerified /\ ~IsVerifiedView(u))
    /\ [][\A u \in KycUsers :
            isSanctioned[u] =>
               /\ kycData'[u] = kycData[u]
               /\ ~kycData'[u].isVerified
               /\ ~isSanctioned'[u] => ~IsVerifiedView(u)']_vars

\* alice was verified, sanctioned and had the sanction lifted: her record is
\* otherwise in order and she is still not verified; bob, verified before, is
\* under sanction while the registry runs
C30_Witness ==
    /\ ~isSanctioned["alice"]
    /\ kycData["alice"] = [isVerified |-> FALSE, riskLevel |-> "LOW",
                           expiresAt |-> MaxTime + 1]
    /\ isSanctioned["bob"]
    /\ kycData["bob"].expiresAt > now
    /\ kycData["bob"].riskLevel = "LOW"
    /\ ~kycPaused
====
